---- MODULE Spec2Model ----
(***************************************************************************)
(* A model of stl/types.py: Vector3d, Facet and Solid, with the vertex     *)
(* canonicalisation, ear-clipping split, edge join and planar-edge removal *)
(* operations.                                                             *)
(*                                                                         *)
(* Vertices are Vector3d triples <<x, y, z>> of integers.  All points of   *)
(* the model lie in the plane z = 0, so every cross product computed by    *)
(* _calc_normal is a multiple of the z axis and numpy's normal/length is   *)
(* exactly (0, 0, 1) or (0, 0, -1): no rounding is involved.               *)
(* Python's None is the empty tuple << >>.                                 *)
(***************************************************************************)
EXTENDS Integers, Sequences, FiniteSets, TLC

VARIABLES
    solids,      \* the Solid objects alive: a sequence of [name, facets]
    pc,          \* "idle", or the loop a call is inside: "split", "rpe"
    self,        \* <<s, i>>: the receiver of the call in progress
    v,           \* split_to_triangles: the working polygon
    new_facets,  \* split_to_triangles: the triangles emitted so far
    scans,       \* split_to_triangles: full scans that clipped no ear
    count,       \* remove_planar_edges: merges so far
    ret,         \* what the last completed call returned or raised
    last         \* the last call: its name, receiver, argument, solids before

vars == <<solids, pc, self, v, new_facets, scans, count, ret, last>>

----------------------------------------------------------------------------
(* Bounds *)

MaxX == 2
MaxY == 1
MaxVerts == 4
MaxScans == 2
MaxFacets == 2
CellsWide == 1
MaxMeshFacets == 3
MaxEdgeFacets == 4

----------------------------------------------------------------------------
(* Vector3d *)

None == << >>

Vector3d(x, y, z) == <<x, y, z>>

\* tuple.__lt__ on two Vector3d: lexicographic on (x, y, z)
VLess(p, q) ==
    \/ p[1] < q[1]
    \/ p[1] = q[1] /\ p[2] < q[2]
    \/ p[1] = q[1] /\ p[2] = q[2] /\ p[3] < q[3]

\* list.__lt__ on two lists of Vector3d: the first differing element decides,
\* a proper prefix is smaller
ListLess(xs, ys) ==
    \E k \in 1..(Len(ys)) :
        /\ \A m \in 1..(k - 1) : m <= Len(xs) /\ xs[m] = ys[m]
        /\ k - 1 <= Len(xs)
        /\ (k > Len(xs) \/ VLess(xs[k], ys[k]))

Sub(p, q) == <<p[1] - q[1], p[2] - q[2], p[3] - q[3]>>

Cross(a, b) ==
    <<a[2] * b[3] - a[3] * b[2],
      a[3] * b[1] - a[1] * b[3],
      a[1] * b[2] - a[2] * b[1]>>

Sgn(k) == IF k > 0 THEN 1 ELSE IF k < 0 THEN -1 ELSE 0

\* Facet._calc_normal: the unit normal by the right-hand rule, None if colinear.
\* normal/length of a vector along one axis is its sign vector, exactly.
calc_normal(v0, v1, v2) ==
    LET normal == Cross(Sub(v1, v0), Sub(v2, v1))
    IN  IF normal # <<0, 0, 0>>
        THEN Vector3d(Sgn(normal[1]), Sgn(normal[2]), Sgn(normal[3]))
        ELSE None

----------------------------------------------------------------------------
(* Facet *)

\* Facet.__init__ raises TypeError when it has to compute the normal of
\* fewer than three vertices (recalculate_normal unpacks vertices[0:3])
FacetRaises(normal, vertices) == normal = None /\ Len(vertices) < 3

\* Facet.__init__: a falsy normal (None) is recomputed from the first three
\* vertices
Facet(normal, vertices) ==
    [normal   |-> IF normal # None
                  THEN normal
                  ELSE calc_normal(vertices[1], vertices[2], vertices[3]),
     vertices |-> vertices]

\* Facet.__eq__
FacetEq(f, g) == f.normal = g.normal /\ f.vertices = g.vertices

\* Facet.__lt__
FacetLess(f, g) == ListLess(f.vertices, g.vertices)

\* sort_vertices: the (vertex, index) pairs, indices from 0
swap_enumerated(vs) == [k \in 1..Len(vs) |-> <<vs[k], k - 1>>]

\* tuple.__lt__ on (Vector3d, int)
PairLess(p, q) == VLess(p[1], q[1]) \/ (p[1] = q[1] /\ p[2] < q[2])

\* tuple.__lt__ on (int, Vector3d)
KeyLess(p, q) == p[1] < q[1] \/ (p[1] = q[1] /\ VLess(p[2], q[2]))

index_of_min_first(vs) == 0

\* sort_vertices: min(swap_enumerated)[1]
index_of_min(vs) ==
    LET se == swap_enumerated(vs)
        k  == CHOOSE k \in 1..Len(vs) :
                  \A m \in 1..Len(vs) : m # k => PairLess(se[k], se[m])
    IN  se[k][2]

\* sort_vertices: the pairs ((index - index_of_min) % n, vertex)
reindexed_enumerated(vs) ==
    LET se == swap_enumerated(vs)
    IN  [k \in 1..Len(vs) |->
            <<(se[k][2] - index_of_min(vs)) % Len(vs), se[k][1]>>]

\* sorted() of a list of (int, Vector3d) pairs: the element of rank r is the
\* one with r - 1 smaller elements (the first components are distinct)
sorted(ps) ==
    [r \in 1..Len(ps) |->
        ps[CHOOSE k \in 1..Len(ps) :
              Cardinality({m \in 1..Len(ps) : KeyLess(ps[m], ps[k])}) = r - 1]]

\* Facet.sort_vertices: the facet after the call (n >= 1)
sort_vertices(f) ==
    LET s == sorted(reindexed_enumerated(f.vertices))
    IN  [f EXCEPT !.vertices = [r \in 1..Len(s) |-> s[r][2]]]

\* Facet.recalculate_normal (n >= 3)
recalculate_normal(f) ==
    [f EXCEPT !.normal = calc_normal(f.vertices[1], f.vertices[2], f.vertices[3])]

\* list.pop(i), i from 0: the list without that element
Pop(xs, i) == [k \in 1..(Len(xs) - 1) |-> IF k <= i THEN xs[k] ELSE xs[k + 1]]

\* xs[i] with i from 0, as Python indexes
At(xs, i) == xs[i + 1]

\* split_to_triangles, lines 275-293: the candidate ear (a, a+1, a+2) of the
\* working polygon w is clipped when no other vertex x breaks out of the
\* inner for loop
IsEar(normal, w, a) ==
    LET n == Len(w)
        b == (a + 1) % n
        c == (b + 1) % n
    IN  \A x \in 0..(n - 1) :
            (x # a /\ x # b /\ x # c) =>
                /\ calc_normal(At(w, a), At(w, b), At(w, c)) = normal
                /\ ~ ( /\ calc_normal(At(w, x), At(w, a), At(w, b))
                            = calc_normal(At(w, x), At(w, b), At(w, c))
                       /\ calc_normal(At(w, x), At(w, b), At(w, c))
                            = calc_normal(At(w, x), At(w, c), At(w, a)) )

HasEar(normal, w) == \E a \in 0..(Len(w) - 1) : IsEar(normal, w, a)

\* the first a of `for a in range(len(v))` that reaches the else branch
FirstEar(normal, w) ==
    CHOOSE a \in 0..(Len(w) - 1) :
        /\ IsEar(normal, w, a)
        /\ \A a2 \in 0..(a - 1) : ~IsEar(normal, w, a2)

\* remove_1d_vertex: some i has vertices[i] == vertices[i+2]
Has1d(vs) == \E i \in 0..(Len(vs) - 1) : At(vs, i) = At(vs, (i + 2) % Len(vs))

First1d(vs) ==
    CHOOSE i \in 0..(Len(vs) - 1) :
        /\ At(vs, i) = At(vs, (i + 2) % Len(vs))
        /\ \A i2 \in 0..(i - 1) : At(vs, i2) # At(vs, (i2 + 2) % Len(vs))

Max2(a, b) == IF a >= b THEN a ELSE b
Min2(a, b) == IF a <= b THEN a ELSE b

\* remove_1d_vertex raises IndexError at its second pop when the first pop
\* emptied the list (a facet of one vertex: j = k = 0)
Remove1dRaises(vs) == Has1d(vs) /\ Len(vs) = 1

\* remove_1d_vertex: the vertex list after the call
remove_1d_vertex(vs) ==
    IF ~Has1d(vs) THEN vs
    ELSE LET i == First1d(vs)
             j == (i + 1) % Len(vs)
             k == (i + 2) % Len(vs)
             once == Pop(vs, Max2(j, k))
         IN  IF Min2(j, k) < Len(once) THEN Pop(once, Min2(j, k)) ELSE once

\* remove_1d_vertex: the value returned, None if no vertex is removed
remove_1d_result(vs) ==
    IF ~Has1d(vs) THEN None ELSE At(vs, (First1d(vs) + 1) % Len(vs))

\* remove_colinear_vertex: `not Facet._calc_normal(i, j, k)`
IsColinearAt(vs, i) ==
    calc_normal(At(vs, i), At(vs, (i + 1) % Len(vs)), At(vs, (i + 2) % Len(vs)))
        = None

HasColinear(vs) == \E i \in 0..(Len(vs) - 1) : IsColinearAt(vs, i)

FirstColinear(vs) ==
    CHOOSE i \in 0..(Len(vs) - 1) :
        IsColinearAt(vs, i) /\ \A i2 \in 0..(i - 1) : ~IsColinearAt(vs, i2)

\* remove_colinear_vertex: the vertex list after the call
remove_colinear_vertex(vs) ==
    IF ~HasColinear(vs) THEN vs
    ELSE Pop(vs, (FirstColinear(vs) + 1) % Len(vs))

\* remove_colinear_vertex: the value returned
remove_colinear_result(vs) ==
    IF ~HasColinear(vs) THEN None
    ELSE At(vs, (FirstColinear(vs) + 1) % Len(vs))

\* join, lines 351-352: edge i0 -> i0+1 of f is edge j0+1 <- j0 of g
SharedEdge(f, g, i0, j0) ==
    /\ At(f.vertices, i0) = At(g.vertices, (j0 + 1) % Len(g.vertices))
    /\ At(f.vertices, (i0 + 1) % Len(f.vertices)) = At(g.vertices, j0)

EdgePairs(f, g) ==
    {p \in (0..(Len(f.vertices) - 1)) \X (0..(Len(g.vertices) - 1)) :
        SharedEdge(f, g, p[1], p[2])}

\* the order of two nested for loops: the first index outermost
PairBefore(p, q) == p[1] < q[1] \/ (p[1] = q[1] /\ p[2] < q[2])

\* the pair of ps the loops reach first
FirstPair(ps) == CHOOSE p \in ps : \A q \in ps : q # p => PairBefore(p, q)

\* join finds an edge to join along
Joinable(f, g) ==
    /\ f.normal = g.normal
    /\ \E i0 \in 0..(Len(f.vertices) - 1) :
          \E j0 \in 0..(Len(g.vertices) - 1) : SharedEdge(f, g, i0, j0)

FirstEdgePair(f, g) == FirstPair(EdgePairs(f, g))

WalkWithStart(vs, i0) ==
    LET n == Len(vs)
    IN  [t \in 1..n |-> At(vs, (i0 + t - 1) % n)]

\* the while loop `i = i1; while i != i0`: vs[i1], ..., vs[i0 - 1], cyclically
Walk(vs, i0) ==
    LET n  == Len(vs)
        i1 == (i0 + 1) % n
    IN  [t \in 1..((i0 - i1) % n) |-> At(vs, (i1 + t - 1) % n)]

\* join, lines 354-362: new_vertices for the shared edge p = (i0, j0)
WalkBoth(f, g, p) == Walk(f.vertices, p[1]) \o Walk(g.vertices, p[2])

\* new_vertices for the first shared edge
new_vertices(f, g) == WalkBoth(f, g, FirstEdgePair(f, g))

\* join raises when the constructor does
JoinRaises(f, g) == Joinable(f, g) /\ FacetRaises(f.normal, new_vertices(f, g))

\* Facet.join: << >> for None, else the new facet
join(f, g) ==
    IF Joinable(f, g) THEN Facet(f.normal, new_vertices(f, g)) ELSE None

----------------------------------------------------------------------------
(* Solid *)

Solid(name, facets) == [name |-> name, facets |-> facets]

\* Solid.__eq__
SolidEq(a, b) ==
    /\ a.name = b.name
    /\ Len(a.facets) = Len(b.facets)
    /\ \A i \in 1..Len(a.facets) : FacetEq(a.facets[i], b.facets[i])

\* list.sort() on facets: stable, comparing with Facet.__lt__ only
list_sort(fs) ==
    LET Rank(k) ==
            Cardinality({m \in 1..Len(fs) : FacetLess(fs[m], fs[k])})
            + Cardinality({m \in 1..(k - 1) : ~FacetLess(fs[k], fs[m])
                                               /\ ~FacetLess(fs[m], fs[k])})
    IN  [r \in 1..Len(fs) |-> fs[CHOOSE k \in 1..Len(fs) : Rank(k) = r - 1]]

\* sort_facets raises ValueError (min of an empty list) at a facet without
\* vertices
SortFacetsRaises(fs) == \E i \in 1..Len(fs) : Len(fs[i].vertices) = 0

\* Solid.sort_facets: the facet list after the call
sort_facets(fs) ==
    IF SortFacetsRaises(fs)
    THEN LET e == CHOOSE i \in 1..Len(fs) :
                      /\ Len(fs[i].vertices) = 0
                      /\ \A i2 \in 1..(i - 1) : Len(fs[i2].vertices) # 0
         IN  [i \in 1..Len(fs) |-> IF i < e THEN sort_vertices(fs[i]) ELSE fs[i]]
    ELSE list_sort([i \in 1..Len(fs) |-> sort_vertices(fs[i])])

\* remove_planar_edge: the index pairs (i, j), i != j, from 0, whose join
\* finds a shared edge
JoinPairs(fs) ==
    {p \in (0..(Len(fs) - 1)) \X (0..(Len(fs) - 1)) :
        p[1] # p[2] /\ Joinable(At(fs, p[1]), At(fs, p[2]))}

\* the first pair of ps, None if there is none
FirstOrNone(ps) == IF ps = {} THEN None ELSE FirstPair(ps)

LastJoinPair(fs) ==
    IF JoinPairs(fs) = {} THEN None
    ELSE CHOOSE p \in JoinPairs(fs) :
             \A q \in JoinPairs(fs) : q # p => PairBefore(q, p)

\* remove_planar_edge, lines 75-80: the first (i, j) whose join finds a
\* shared edge, None if the loop ends without one
FirstJoinPair(fs) == FirstOrNone(JoinPairs(fs))

WithoutFirstOnly(fs, i, j) == Pop(fs, i)

\* the list comprehension of lines 81-83: fs without positions i and j
Without(fs, i, j) ==
    LET keep == {k \in 0..(Len(fs) - 1) : k # i /\ k # j}
    IN  [r \in 1..Cardinality(keep) |->
            At(fs, CHOOSE k \in keep :
                       Cardinality({m \in keep : m < k}) = r - 1)]

\* lines 81-86: the two facets replaced by joined_facet, which is returned
Merged(fs, p, joined_facet) ==
    [raised |-> FALSE,
     value  |-> joined_facet,
     facets |-> Append(Without(fs, p[1], p[2]), joined_facet)]

\* remove_planar_edge once its loop has stopped at the pair p, or ended (None)
MergeAt(fs, p) ==
    IF p = None
    THEN [raised |-> FALSE, value |-> None, facets |-> fs]
    ELSE IF JoinRaises(At(fs, p[1]), At(fs, p[2]))
    THEN [raised |-> TRUE, value |-> None, facets |-> fs]
    ELSE Merged(fs, p, join(At(fs, p[1]), At(fs, p[2])))

\* Solid.remove_planar_edge: whether it raises (join does), the value it
\* returns, and the facet list after the call
remove_planar_edge(fs) == MergeAt(fs, FirstJoinPair(fs))

----------------------------------------------------------------------------
(* Inputs *)

Grid(mx, my) == {Vector3d(x, y, 0) : x \in 0..mx, y \in 0..my}

\* the points facets are built on
Points == Grid(MaxX, MaxY)

\* a strip of CellsWide unit cells
Strip == Grid(CellsWide, 1)

\* the corners of the triangle at the origin of the strip
Corner == {p \in Strip : p[1] + p[2] <= 1}

\* the normals a caller or a file hands to Facet(): none, or a unit normal
Normals == {None, Vector3d(0, 0, 1), Vector3d(0, 0, -1)}

VertexLists(P, lo, hi) == UNION {[1..n -> P] : n \in lo..hi}

\* every Facet(normal, vertices) over the points P with lo..hi vertices
FacetsOver(P, lo, hi) ==
    {Facet(n, vs) : n \in Normals, vs \in VertexLists(P, lo, hi)}

\* the triangles over P as a file gives them: each with a stated unit normal
TrianglesRead(P) ==
    {Facet(n, vs) : n \in Normals \ {None}, vs \in VertexLists(P, 3, 3)}

\* vs rotated left by r: the same cycle, started r places later
Rotate(vs, r) == [k \in 1..Len(vs) |-> At(vs, (k - 1 + r) % Len(vs))]

NoRet == [raised |-> FALSE, value |-> None]

NoCall == [op |-> "none", s |-> 0, i |-> 0, t |-> 0, j |-> 0, before |-> << >>]

----------------------------------------------------------------------------
(* Operations *)

Call(op, s, i, t, j) ==
    [op |-> op, s |-> s, i |-> i, t |-> t, j |-> j, before |-> solids]

Returns(value) == [raised |-> FALSE, value |-> value]

Raises == [raised |-> TRUE, value |-> None]

FacetOf(s, i) == solids[s].facets[i]

Idle == pc = "idle"

NoLoop == UNCHANGED <<pc, self, v, new_facets, scans, count>>

\* facet.sort_vertices()
SortVertices(s, i) ==
    /\ Idle
    /\ last' = Call("sort_vertices", s, i, 0, 0)
    /\ IF Len(FacetOf(s, i).vertices) = 0
       THEN ret' = Raises /\ UNCHANGED solids
       ELSE /\ ret' = Returns(None)
            /\ solids' = [solids EXCEPT ![s].facets[i] = sort_vertices(@)]
    /\ NoLoop

\* facet.recalculate_normal()
RecalculateNormal(s, i) ==
    /\ Idle
    /\ last' = Call("recalculate_normal", s, i, 0, 0)
    /\ IF Len(FacetOf(s, i).vertices) < 3
       THEN ret' = Raises /\ UNCHANGED solids
       ELSE /\ ret' = Returns(None)
            /\ solids' = [solids EXCEPT ![s].facets[i] = recalculate_normal(@)]
    /\ NoLoop

\* facet.remove_1d_vertex()
Remove1dVertex(s, i) ==
    /\ Idle
    /\ last' = Call("remove_1d_vertex", s, i, 0, 0)
    /\ ret' = IF Remove1dRaises(FacetOf(s, i).vertices)
              THEN Raises
              ELSE Returns(remove_1d_result(FacetOf(s, i).vertices))
    /\ solids' = [solids EXCEPT ![s].facets[i].vertices = remove_1d_vertex(@)]
    /\ NoLoop

\* facet.remove_colinear_vertex()
RemoveColinearVertex(s, i) ==
    /\ Idle
    /\ last' = Call("remove_colinear_vertex", s, i, 0, 0)
    /\ ret' = Returns(remove_colinear_result(FacetOf(s, i).vertices))
    /\ solids' = [solids EXCEPT ![s].facets[i].vertices = remove_colinear_vertex(@)]
    /\ NoLoop

\* solids[s].facets[i].join(solids[t].facets[j])
Join(s, i, t, j) ==
    /\ Idle
    /\ last' = Call("join", s, i, t, j)
    /\ ret' = IF JoinRaises(FacetOf(s, i), FacetOf(t, j))
              THEN Raises
              ELSE Returns(join(FacetOf(s, i), FacetOf(t, j)))
    /\ UNCHANGED solids
    /\ NoLoop

\* facet.split_to_triangles(), lines 271-272
SplitBegin(s, i) ==
    /\ Idle
    /\ pc' = "split"
    /\ self' = <<s, i>>
    /\ v' = FacetOf(s, i).vertices
    /\ new_facets' = << >>
    /\ scans' = 0
    /\ last' = Call("split_to_triangles", s, i, 0, 0)
    /\ ret' = NoRet
    /\ UNCHANGED <<solids, count>>

\* one pass of the while loop, lines 273-293: the for loop over a clips the
\* first ear it finds, or ends without changing anything
SplitScan ==
    /\ pc = "split"
    /\ Len(v) > 3
    /\ LET normal == FacetOf(self[1], self[2]).normal
       IN  IF HasEar(normal, v)
           THEN LET a == FirstEar(normal, v)
                    b == (a + 1) % Len(v)
                    c == (b + 1) % Len(v)
                IN  /\ new_facets' = Append(new_facets,
                                            Facet(normal, <<At(v, a), At(v, b), At(v, c)>>))
                    /\ v' = Pop(v, b)
                    /\ UNCHANGED scans
           ELSE /\ scans < MaxScans
                /\ scans' = scans + 1
                /\ UNCHANGED <<v, new_facets>>
    /\ UNCHANGED <<solids, pc, self, count, ret, last>>

\* lines 294-295
SplitReturn ==
    /\ pc = "split"
    /\ Len(v) <= 3
    /\ LET normal == FacetOf(self[1], self[2]).normal
       IN  ret' = IF FacetRaises(normal, v)
                  THEN Raises
                  ELSE Returns(Append(new_facets, Facet(normal, v)))
    /\ pc' = "idle"
    /\ UNCHANGED <<solids, self, v, new_facets, scans, count, last>>

\* Solid(name, facets) on the list a call returned
NewSolid ==
    /\ Idle
    /\ last.op = "split_to_triangles"
    /\ ~ret.raised
    /\ Len(solids) = 1
    /\ solids' = Append(solids, Solid(solids[1].name, ret.value))
    /\ UNCHANGED <<pc, self, v, new_facets, scans, count, ret, last>>

\* solid.sort_facets()
SortFacets(s) ==
    /\ Idle
    /\ last' = Call("sort_facets", s, 0, 0, 0)
    /\ ret' = IF SortFacetsRaises(solids[s].facets) THEN Raises ELSE Returns(None)
    /\ solids' = [solids EXCEPT ![s].facets = sort_facets(@)]
    /\ NoLoop

\* solid.remove_planar_edge()
RemovePlanarEdge(s) ==
    /\ Idle
    /\ last' = Call("remove_planar_edge", s, 0, 0, 0)
    /\ \E r \in {remove_planar_edge(solids[s].facets)} :
          /\ ret' = [raised |-> r.raised, value |-> r.value]
          /\ solids' = [solids EXCEPT ![s].facets = r.facets]
    /\ NoLoop

\* solid.remove_planar_edges(), line 90
RpeBegin(s) ==
    /\ Idle
    /\ pc' = "rpe"
    /\ self' = <<s, 0>>
    /\ count' = 0
    /\ last' = Call("remove_planar_edges", s, 0, 0, 0)
    /\ ret' = NoRet
    /\ UNCHANGED <<solids, v, new_facets, scans>>

\* one pass of the while loop, lines 91-92: a merge, and count += 1
RpeMerge ==
    /\ pc = "rpe"
    /\ \E r \in {remove_planar_edge(solids[self[1]].facets)} :
          /\ ~r.raised
          /\ r.value # None
          /\ solids' = [solids EXCEPT ![self[1]].facets = r.facets]
    /\ count' = count + 1
    /\ UNCHANGED <<pc, self, v, new_facets, scans, ret, last>>

\* remove_planar_edge returned None: line 93
RpeReturn ==
    /\ pc = "rpe"
    /\ FirstJoinPair(solids[self[1]].facets) = None
    /\ pc' = "idle"
    /\ ret' = Returns(count)
    /\ UNCHANGED <<solids, self, v, new_facets, scans, count, last>>

\* remove_planar_edge raised inside the loop
RpeRaise ==
    /\ pc = "rpe"
    /\ remove_planar_edge(solids[self[1]].facets).raised
    /\ pc' = "idle"
    /\ ret' = Raises
    /\ UNCHANGED <<solids, self, v, new_facets, scans, count, last>>

InitLocals ==
    /\ pc = "idle"
    /\ self = <<0, 0>>
    /\ v = << >>
    /\ new_facets = << >>
    /\ scans = 0
    /\ count = 0
    /\ ret = NoRet
    /\ last = NoCall

----------------------------------------------------------------------------
(* sort_vertices on one facet *)

SortInit ==
    /\ \E f \in FacetsOver(Strip, 3, MaxVerts) : solids = <<Solid("solid", <<f>>)>>
    /\ InitLocals

SortNext == SortVertices(1, 1)

SortSpec == SortInit /\ [][SortNext]_vars

\* vs is ws started at another place of the same cycle
IsRotation(vs, ws) ==
    /\ Len(vs) = Len(ws)
    /\ \E r \in 0..(Len(ws) - 1) : vs = Rotate(ws, r)

\* C1: after sort_vertices() on a facet of n >= 3 vertices the vertex list
\* is a cyclic rotation of the list before the call, its first vertex is the
\* lexicographically smallest vertex of the facet, and the normal is unchanged.
C1_SortRotates ==
    (last.op = "sort_vertices" /\ Len(last.before[1].facets[1].vertices) >= 3) =>
        LET b == last.before[1].facets[1]
            a == solids[1].facets[1]
        IN  /\ ~ret.raised
            /\ IsRotation(a.vertices, b.vertices)
            /\ \A k \in 1..Len(a.vertices) : ~VLess(a.vertices[k], a.vertices[1])
            /\ a.normal = b.normal

\* a sort_vertices() call that had to move the vertices of a quadrilateral
C1_Witness ==
    /\ last.op = "sort_vertices"
    /\ Len(solids[1].facets[1].vertices) = 4
    /\ solids[1].facets[1].vertices # last.before[1].facets[1].vertices

----------------------------------------------------------------------------
(* sort_vertices on a facet and on a rotation of it *)

\* two facets built on the same cycle of vertices, the second started r
\* places later, each in a solid of its own
TwinInit ==
    /\ \E f \in FacetsOver(Points, 3, MaxVerts) :
         \E r \in 0..(Len(f.vertices) - 1) :
            solids = <<Solid("solid", <<f>>),
                       Solid("solid", <<Facet(f.normal, Rotate(f.vertices, r))>>)>>
    /\ InitLocals

\* the second facet is sorted once the first has been
SortTwin == last.op # "none" /\ SortVertices(2, 1)

TwinNext == SortVertices(1, 1) \/ SortTwin

TwinSpec == TwinInit /\ [][TwinNext]_vars

\* C2: sort_vertices is idempotent, and two facets with the same normal whose
\* vertex lists are rotations of one another are equal once sort_vertices()
\* has been applied to each.
C2_SortCanonical ==
    last.op = "sort_vertices" =>
        /\ sort_vertices(solids[last.s].facets[1]) = solids[last.s].facets[1]
        /\ (last.s = 2 /\ solids[1].facets[1].normal = solids[2].facets[1].normal) =>
                FacetEq(solids[1].facets[1], solids[2].facets[1])

----------------------------------------------------------------------------
(* sort_facets on a solid and on a rearrangement of it *)

Orders(n) == {p \in [1..n -> 1..n] : \A a, b \in 1..n : a # b => p[a] # p[b]}

\* fs with its facets in the order p, facet k started r[k] places later
Rearranged(fs, p, r) ==
    [k \in 1..Len(fs) |->
        [fs[p[k]] EXCEPT !.vertices = Rotate(@, r[k] % Len(@))]]

CanonInit ==
    /\ \E n \in 1..MaxFacets :
         \E fs \in [1..n -> TrianglesRead(Corner)] :
            \E p \in Orders(n) :
               \E r \in [1..n -> 0..2] :
                  solids = <<Solid("solid", fs), Solid("solid", Rearranged(fs, p, r))>>
    /\ InitLocals

\* the second solid is sorted once the first has been
SortFacetsTwin == last.op # "none" /\ SortFacets(2)

CanonNext == SortFacets(1) \/ SortFacetsTwin

CanonSpec == CanonInit /\ [][CanonNext]_vars

\* C3: two solids with the same name whose facet lists are rearrangements of
\* one another (facets permuted, vertex lists rotated, normals kept) are
\* equal once sort_facets() has been called on each.
C3_SortFacetsCanonical ==
    (last.op = "sort_facets" /\ last.s = 2) => SolidEq(solids[1], solids[2])

----------------------------------------------------------------------------
(* split_to_triangles on one facet *)

SplitInit ==
    /\ \E f \in FacetsOver(Points, 3, MaxVerts) : solids = <<Solid("solid", <<f>>)>>
    /\ InitLocals

SplitNext == SplitBegin(1, 1) \/ SplitScan \/ SplitReturn

SplitSpec == SplitInit /\ [][SplitNext]_vars

Returned(op) == last.op = op /\ pc = "idle"

VertexSet(vs) == {vs[k] : k \in 1..Len(vs)}

\* C4: when split_to_triangles() returns on a facet of n >= 3 vertices it
\* returns n - 2 facets, each of 3 vertices of the parent and each with the
\* parent's normal (an absent normal included), and the parent is unchanged.
C4_SplitTriangles ==
    (Returned("split_to_triangles") /\ Len(last.before[1].facets[1].vertices) >= 3) =>
        LET parent == last.before[1].facets[1]
        IN  /\ ~ret.raised
            /\ Len(ret.value) = Len(parent.vertices) - 2
            /\ \A k \in 1..Len(ret.value) :
                  /\ Len(ret.value[k].vertices) = 3
                  /\ VertexSet(ret.value[k].vertices) \subseteq VertexSet(parent.vertices)
                  /\ ret.value[k].normal = parent.normal
            /\ solids = last.before

\* C10: split_to_triangles() does not go on after a full scan of the working
\* polygon that clipped no ear: the call is never found still inside its
\* loop with such a scan behind it.
C10_NoSilentRescan == pc = "split" => scans = 0

----------------------------------------------------------------------------
(* join of two facets *)

JoinInit ==
    /\ \E f \in FacetsOver(Strip, 3, MaxVerts) :
         \E g \in FacetsOver(Strip, 3, 3) :
            solids = <<Solid("solid", <<f, g>>)>>
    /\ InitLocals

JoinNext == Join(1, 1, 1, 2)

JoinSpec == JoinInit /\ [][JoinNext]_vars

\* vs[i+1], ..., vs[i-1], indices from 0 and cyclic: every vertex but vs[i]
ChainAfter(vs, i) == [t \in 1..(Len(vs) - 1) |-> At(vs, (i + t) % Len(vs))]

\* self[i] = other[j+1] and self[i+1] = other[j]
ReversedEdge(f, g, i, j) ==
    /\ At(f.vertices, i) = At(g.vertices, (j + 1) % Len(g.vertices))
    /\ At(f.vertices, (i + 1) % Len(f.vertices)) = At(g.vertices, j)

\* C5: self.join(other) returns None exactly when the normals differ or no
\* pair (i, j) has self[i] = other[j+1] and self[i+1] = other[j]; otherwise,
\* for the first such pair (i outermost), it returns a facet with the shared
\* normal whose vertices are self[i+1..i-1] then other[j+1..j-1], n + m - 2 in
\* all; self and other are unchanged.
C5_Join ==
    last.op = "join" =>
        LET f == last.before[1].facets[1]
            g == last.before[1].facets[2]
            n == Len(f.vertices)
            m == Len(g.vertices)
            pairs == {p \in (0..(n - 1)) \X (0..(m - 1)) : ReversedEdge(f, g, p[1], p[2])}
        IN  /\ ~ret.raised
            /\ (ret.value = None) <=> (f.normal # g.normal \/ pairs = {})
            /\ ret.value # None =>
                  \E p \in pairs :
                     /\ \A q \in pairs :
                           q # p => (p[1] < q[1] \/ (p[1] = q[1] /\ p[2] < q[2]))
                     /\ ret.value.normal = f.normal
                     /\ ret.value.vertices
                           = ChainAfter(f.vertices, p[1]) \o ChainAfter(g.vertices, p[2])
                     /\ Len(ret.value.vertices) = n + m - 2
            /\ solids = last.before

----------------------------------------------------------------------------
(* a quadrilateral split into triangles, and the triangles joined again *)

QuadInit ==
    /\ \E f \in FacetsOver(Points, 4, 4) : solids = <<Solid("solid", <<f>>)>>
    /\ InitLocals

JoinSplit == \E i, j \in 1..2 : Len(solids) = 2 /\ Len(solids[2].facets) = 2 /\ Join(2, i, 2, j)

QuadNext == SplitBegin(1, 1) \/ SplitScan \/ SplitReturn \/ NewSolid \/ JoinSplit

QuadSpec == QuadInit /\ [][QuadNext]_vars

\* every three cyclically consecutive vertices of vs have the normal n
AllTurns(vs, n) ==
    \A k \in 0..(Len(vs) - 1) :
        calc_normal(At(vs, k), At(vs, (k + 1) % Len(vs)), At(vs, (k + 2) % Len(vs))) = n

\* a convex polygon whose normal follows the right-hand rule
Convex(f) == f.normal # None /\ AllTurns(f.vertices, f.normal)

\* C6: for a convex quadrilateral Q with a right-hand normal,
\* split_to_triangles() returns two triangles t0, t1, and both t0.join(t1)
\* and t1.join(t0) return a facet of 4 vertices with Q's normal whose vertex
\* list is a rotation of Q's, equal to Q once both are sorted.
C6_JoinInvertsSplit ==
    LET Q == solids[1].facets[1]
    IN  (Len(Q.vertices) = 4 /\ Convex(Q)) =>
            /\ pc = "split" => scans = 0
            /\ Returned("split_to_triangles") => (~ret.raised /\ Len(ret.value) = 2)
            /\ (last.op = "join" /\ last.i # last.j) =>
                  /\ ~ret.raised
                  /\ ret.value # None
                  /\ Len(ret.value.vertices) = 4
                  /\ ret.value.normal = Q.normal
                  /\ IsRotation(ret.value.vertices, Q.vertices)
                  /\ FacetEq(sort_vertices(ret.value), sort_vertices(Q))

\* the two triangles of a convex quadrilateral have been joined, in the
\* order that is not the order of the repository's test
C6_Witness ==
    /\ Len(solids[1].facets[1].vertices) = 4
    /\ Convex(solids[1].facets[1])
    /\ last.op = "join"
    /\ last.i = 1
    /\ last.j = 2
    /\ ret.value # None

\* C9: join only makes convex shapes: when every three consecutive vertices
\* of each input have that input's normal (a unit normal, the same for both),
\* a facet is returned only if every three consecutive vertices of it have
\* that normal too.
C9_JoinOnlyConvex ==
    (/\ last.op = "join"
     /\ ~ret.raised
     /\ ret.value # None
     /\ Convex(FacetOf(last.s, last.i))
     /\ Convex(FacetOf(last.t, last.j))) =>
        AllTurns(ret.value.vertices, FacetOf(last.s, last.i).normal)

----------------------------------------------------------------------------
(* remove_planar_edges on a mesh *)

\* the triangles of a consistently wound mesh over P: counterclockwise, with
\* the right-hand normal, each started at its smallest vertex
MeshTriangles(P) ==
    {sort_vertices(Facet(None, vs)) :
        vs \in {ws \in VertexLists(P, 3, 3) :
                   calc_normal(ws[1], ws[2], ws[3]) = Vector3d(0, 0, 1)}}

MergeInit ==
    /\ \E n \in 0..MaxMeshFacets :
         \E fs \in [1..n -> MeshTriangles(Strip)] : solids = <<Solid("solid", fs)>>
    /\ InitLocals

MergeNext == RpeBegin(1) \/ RpeMerge \/ RpeReturn

MergeSpec == MergeInit /\ [][MergeNext]_vars

\* some ordered pair of facets at different places of fs joins
SomeJoin(fs) ==
    \E a, b \in 1..Len(fs) : a # b /\ ~JoinRaises(fs[a], fs[b]) /\ join(fs[a], fs[b]) # None

\* the merges remove_planar_edges() may make on F facets, as claimed
ClaimedMerges(F) == F - 1

\* the same, for a solid that may have no facet at all
MostMerges(F) == IF F = 0 THEN 0 ELSE F - 1

\* remove_planar_edges() on the F facets of last.before, with the bound B(F)
\* on its merges: inside the loop remove_planar_edge() does not raise and
\* the merges so far are the facets lost, B(F) at most, so that the loop
\* ends after B(F) more passes at most; the call returns that
\* number, leaves no pair that joins, and returns 0 with the facets as they
\* were when no pair joined to begin with.
RpeContract(B(_)) ==
    last.op = "remove_planar_edges" =>
        LET before == last.before[1].facets
            now    == solids[1].facets
        IN  /\ pc = "rpe" =>
                  /\ ~remove_planar_edge(now).raised
                  /\ count <= B(Len(before))
                  /\ count = Len(before) - Len(now)
            /\ pc = "idle" =>
                  /\ ~ret.raised
                  /\ ret.value = count
                  /\ ret.value <= B(Len(before))
                  /\ ret.value = Len(before) - Len(now)
                  /\ ~SomeJoin(now)
                  /\ ~SomeJoin(before) => (ret.value = 0 /\ now = before)

----------------------------------------------------------------------------
(* every operation, in any order, on the facets of one Solid *)

\* three points in any order, made a Facet and put in canonical rotation
SortedTriangles(P) ==
    {sort_vertices(Facet(None, vs)) : vs \in VertexLists(P, 3, 3)}

\* a Solid of 1..MaxFacets such triangles
Init ==
    /\ \E n \in 1..MaxFacets :
         \E fs \in [1..n -> SortedTriangles(Corner)] :
            solids = <<Solid("solid", fs)>>
    /\ InitLocals

FacetCall(s, i) ==
    \/ SortVertices(s, i)
    \/ RecalculateNormal(s, i)
    \/ Remove1dVertex(s, i)
    \/ RemoveColinearVertex(s, i)
    \/ SplitBegin(s, i)
    \/ \E j \in 1..Len(solids[s].facets) : Join(s, i, s, j)

SolidCall(s) ==
    \/ SortFacets(s)
    \/ RemovePlanarEdge(s)
    \/ RpeBegin(s)

Next ==
    \/ \E i \in 1..Len(solids[1].facets) : FacetCall(1, i)
    \/ SolidCall(1)
    \/ SplitScan
    \/ SplitReturn
    \/ RpeMerge
    \/ RpeReturn
    \/ RpeRaise

Spec == Init /\ [][Next]_vars

\* the facets the last call returned
ReturnedFacets ==
    IF pc # "idle" \/ ret.raised \/ ret.value = None THEN {}
    ELSE IF last.op \in {"join", "remove_planar_edge"} THEN {ret.value}
    ELSE IF last.op = "split_to_triangles"
    THEN {ret.value[k] : k \in 1..Len(ret.value)}
    ELSE {}

\* C8: every facet a Solid holds, and every facet an operation returned, has
\* at least 3 vertices, in every state reached from Solids whose facets have
\* at least 3 vertices by any sequence of the operations.
C8_AtLeastThreeVertices ==
    /\ \A s \in 1..Len(solids) : \A i \in 1..Len(solids[s].facets) :
          Len(FacetOf(s, i).vertices) >= 3
    /\ \A f \in ReturnedFacets : Len(f.vertices) >= 3

----------------------------------------------------------------------------
(* remove_planar_edge, call after call, on one Solid *)

\* the right-hand triangles over P that fit in one unit cell
CellTriangles(P) ==
    {f \in MeshTriangles(P) :
        \A a, b \in 1..3 : f.vertices[a][1] - f.vertices[b][1] <= 1}

\* a Solid of up to MaxEdgeFacets cell triangles of the strip, or of up to
\* MaxFacets triangles built from any three corner points, degenerate or not
EdgeInit ==
    /\ \/ \E n \in 0..MaxEdgeFacets :
            \E fs \in [1..n -> CellTriangles(Strip)] :
               solids = <<Solid("solid", fs)>>
       \/ \E n \in 1..MaxFacets :
            \E fs \in [1..n -> {Facet(None, vs) : vs \in VertexLists(Corner, 3, 3)}] :
               solids = <<Solid("solid", fs)>>
    /\ InitLocals

EdgeNext == RemovePlanarEdge(1)

EdgeSpec == EdgeInit /\ [][EdgeNext]_vars

\* the ordered pairs (i, j), i # j, indices from 0, whose join returns a facet
Joins(fs) ==
    {p \in (0..(Len(fs) - 1)) \X (0..(Len(fs) - 1)) :
        /\ p[1] # p[2]
        /\ ~JoinRaises(At(fs, p[1]), At(fs, p[2]))
        /\ join(At(fs, p[1]), At(fs, p[2])) # None}

\* place k of a list is place k, k + 1 or k + 2 of the list it was before
\* the places lo < hi were taken out (places from 1)
PlaceBefore(k, lo, hi) ==
    IF k < lo THEN k ELSE IF k + 1 < hi THEN k + 1 ELSE k + 2

\* the first of the pairs ps, i outermost, is the pair taken out of before:
\* now is before without its two places, the rest in their order and as
\* they were, then the merged facet
MergedFirst(before, now, ps, merged) ==
    \E p \in ps :
       /\ \A q \in ps : q # p => (p[1] < q[1] \/ (p[1] = q[1] /\ p[2] < q[2]))
       /\ Len(now) = Len(before) - 1
       /\ merged = join(At(before, p[1]), At(before, p[2]))
       /\ now[Len(now)] = merged
       /\ \A k \in 1..(Len(now) - 1) :
             now[k] = before[PlaceBefore(k, Min2(p[1], p[2]) + 1,
                                            Max2(p[1], p[2]) + 1)]

\* what a call on the list before, of which the pairs ps join, leaves (now)
\* and returns (value)
Frame(before, now, ps, value) ==
    IF ps = {} THEN value = None /\ now = before
    ELSE MergedFirst(before, now, ps, value)

\* C11: remove_planar_edge() merges the first pair (i, j), i # j, i
\* outermost, whose join returns a facet: the list afterwards is the list
\* before without places i and j, the other facets in their order and as
\* they were, then the merged facet, which is also the value returned; when
\* no pair joins it returns None and the list is as it was.
C11_RemovePlanarEdgeFrame ==
    last.op = "remove_planar_edge" =>
        /\ ~ret.raised
        /\ Frame(last.before[1].facets, solids[1].facets,
                 Joins(last.before[1].facets), ret.value)

\* a merge of the first and the last of four facets: the two between them
\* are different and are kept, in their order, before the merged facet
C11_Witness ==
    /\ last.op = "remove_planar_edge"
    /\ Len(last.before[1].facets) = 4
    /\ ret.value # None
    /\ Len(solids[1].facets) = 3
    /\ solids[1].facets[1] = last.before[1].facets[2]
    /\ solids[1].facets[2] = last.before[1].facets[3]
    /\ solids[1].facets[1] # solids[1].facets[2]

====
